---- MODULE Spec2Model ----
(***************************************************************************)
(* A model of the scholar library: NeuralNet (src/src/network.rs), the     *)
(* Dataset adapter (src/src/dataset.rs) and gen_random_matrix              *)
(* (src/src/utils.rs).                                                     *)
(*                                                                         *)
(* f64 values are abstracted to integers in -MaxVal..MaxVal with           *)
(* saturating arithmetic; a DMatrix is a record of its dimensions and its  *)
(* column-major data, as nalgebra stores it.                               *)
(***************************************************************************)
EXTENDS Integers, Sequences, FiniteSets, TLC

\* ---------------------------------------------------------------- bounds
MaxLayers == 3      \* longest topology handed to new()
MaxNodes == 2       \* largest layer size
MaxVal == 2         \* magnitude at which the abstracted f64 values saturate
MaxRows == 2        \* largest dataset
MaxSmallIter == 3   \* iteration counts 0..MaxSmallIter, besides Percent
MaxRaw == 4         \* longest foreign file written over the saved one
MaxRecords == 2     \* CSV records in a file
MaxFields == 2      \* CSV fields in a record

\* ---------------------------------------------------------------- values
NoNet == [kind |-> "none"]
NoValue == <<>>

Clamp(x) == IF x > MaxVal THEN MaxVal ELSE IF x < -MaxVal THEN -MaxVal ELSE x

RECURSIVE SumTo(_, _)
SumTo(f, n) == IF n = 0 THEN 0 ELSE f[n] + SumTo(f, n - 1)

\* DMatrix<f64>: nrows x ncols, data in column-major order
Mat(r, c, d) == [nrows |-> r, ncols |-> c, data |-> d]
At(m, r, c) == m.data[(c - 1) * m.nrows + r]
Zeros(r, c) == Mat(r, c, [k \in 1..(r * c) |-> 0])
ColVec(s) == Mat(Len(s), 1, s)

SameShape(a, b) == a.nrows = b.nrows /\ a.ncols = b.ncols
CanMul(a, b) == a.ncols = b.nrows

MatMul(a, b) ==
    Mat(a.nrows, b.ncols,
        [k \in 1..(a.nrows * b.ncols) |->
            LET r == ((k - 1) % a.nrows) + 1
                c == ((k - 1) \div a.nrows) + 1
            IN Clamp(SumTo([j \in 1..a.ncols |-> At(a, r, j) * At(b, j, c)], a.ncols))])
MatAdd(a, b) == Mat(a.nrows, a.ncols, [k \in 1..Len(a.data) |-> Clamp(a.data[k] + b.data[k])])
MatSub(a, b) == Mat(a.nrows, a.ncols, [k \in 1..Len(a.data) |-> Clamp(a.data[k] - b.data[k])])
Hadamard(a, b) == Mat(a.nrows, a.ncols, [k \in 1..Len(a.data) |-> Clamp(a.data[k] * b.data[k])])
Scale(s, a) == Mat(a.nrows, a.ncols, [k \in 1..Len(a.data) |-> Clamp(s * a.data[k])])
Transpose(a) ==
    Mat(a.ncols, a.nrows,
        [k \in 1..(a.nrows * a.ncols) |->
            LET r == ((k - 1) % a.ncols) + 1
                c == ((k - 1) \div a.ncols) + 1
            IN At(a, c, r)])

\* The activation strategy: the logistic function squashes into (0, 1) around
\* its midpoint at 0; on the integer scale it squashes into 0..2 around 1, and
\* its derivative is computed from the output y as y * (1 - y), here y * (2 - y).
Activate(x) == IF x + 1 < 0 THEN 0 ELSE IF x + 1 > 2 THEN 2 ELSE x + 1
Derivative(y) == y * (2 - y)
ActivateAll(a) == Mat(a.nrows, a.ncols, [k \in 1..Len(a.data) |-> Activate(a.data[k])])
DerivativeAll(a) == Mat(a.nrows, a.ncols, [k \in 1..Len(a.data) |-> Derivative(a.data[k])])

\* ---------------------------------------------------------------- utils.rs
\* The random source: a generator whose stream is a function of its state
Seeds == {0, 1, 2}
RngNext(state) == (3 * state + 1) % 7

RECURSIVE RngSkip(_, _)
RngSkip(state, n) == IF n = 0 THEN state ELSE RngSkip(RngNext(state), n - 1)

\* gen_random_matrix: rows * cols values drawn from [-1.0, 1.0], here from
\* {-1, 0, 1}
gen_random_matrix(rows, cols, state) ==
    Mat(rows, cols, [k \in 1..(rows * cols) |-> (RngSkip(state, k) % 3) - 1])

\* ---------------------------------------------------------------- network.rs
Net(l, w, b, e) == [kind |-> "net", layers |-> l, weights |-> w, biases |-> b, errors |-> e]

\* The values drawn by the time new() builds weight matrix i, and bias vector i
RECURSIVE DrawnForWeights(_, _)
DrawnForWeights(node_counts, i) ==
    IF i <= 1 THEN 0
    ELSE node_counts[i] * node_counts[i - 1] + DrawnForWeights(node_counts, i - 1)

RECURSIVE DrawnForBiases(_, _)
DrawnForBiases(node_counts, i) ==
    IF i <= 1 THEN DrawnForWeights(node_counts, Len(node_counts))
    ELSE node_counts[i] + DrawnForBiases(node_counts, i - 1)

\* new() with the bias vectors sized by the layer before (the skip(1) left out)
NewNetBiasPerLayer(node_counts, seed) ==
    LET num_layers == Len(node_counts)
    IN Net([i \in 1..num_layers |-> Zeros(node_counts[i], 1)],
           [i \in 1..(num_layers - 1) |->
               gen_random_matrix(node_counts[i + 1], node_counts[i],
                                 RngSkip(seed, DrawnForWeights(node_counts, i)))],
           [i \in 1..(num_layers - 1) |->
               gen_random_matrix(node_counts[i], 1,
                                 RngSkip(seed, DrawnForBiases(node_counts, i)))],
           [i \in 1..(num_layers - 1) |-> Zeros(node_counts[i + 1], 1)])

\* NeuralNet::new past its length check: the four vectors of matrices
NewNet(node_counts, seed) ==
    LET num_layers == Len(node_counts)
    IN Net([i \in 1..num_layers |-> Zeros(node_counts[i], 1)],
           [i \in 1..(num_layers - 1) |->
               gen_random_matrix(node_counts[i + 1], node_counts[i],
                                 RngSkip(seed, DrawnForWeights(node_counts, i)))],
           [i \in 1..(num_layers - 1) |->
               gen_random_matrix(node_counts[i + 1], 1,
                                 RngSkip(seed, DrawnForBiases(node_counts, i)))],
           [i \in 1..(num_layers - 1) |-> Zeros(node_counts[i + 1], 1)])

\* The outcome of a call that may panic part-way: the state it left and, when
\* it returned, its value
Outcome(ok, n, out) == [ok |-> ok, net |-> n, out |-> out]

\* Forward propagation from layer i on: layers[i] = activation(weights[i-1] *
\* layers[i-1] + biases[i-1]); a product or sum of mismatched shapes panics
RECURSIVE Forward(_, _)
Forward(n, i) ==
    IF i > Len(n.layers) THEN Outcome(TRUE, n, n.layers[Len(n.layers)].data)
    ELSE IF i - 1 > Len(n.weights) \/ i - 1 > Len(n.biases) THEN Outcome(FALSE, n, NoValue)
    ELSE IF ~CanMul(n.weights[i - 1], n.layers[i - 1]) THEN Outcome(FALSE, n, NoValue)
    ELSE LET z == MatMul(n.weights[i - 1], n.layers[i - 1])
         IN IF ~SameShape(z, n.biases[i - 1]) THEN Outcome(FALSE, n, NoValue)
            ELSE Forward([n EXCEPT !.layers[i] = ActivateAll(MatAdd(z, n.biases[i - 1]))],
                         i + 1)

\* NeuralNet::guess: the input becomes layer 0, then the forward pass
Guess(n, inputs) ==
    IF Len(n.layers) = 0 THEN Outcome(FALSE, n, NoValue)
    ELSE Forward([n EXCEPT !.layers[1] = ColVec(inputs)], 2)

\* Step 2 of backpropagation, walking backward from layer j:
\* errors[j] = (weights[j+1]^T * errors[j+1]) (.) derivative(layers[j+1])
RECURSIVE BackErrors(_, _)
BackErrors(n, j) ==
    IF j < 1 THEN Outcome(TRUE, n, NoValue)
    ELSE LET wt == Transpose(n.weights[j + 1])
         IN IF ~CanMul(wt, n.errors[j + 1]) THEN Outcome(FALSE, n, NoValue)
            ELSE LET e == MatMul(wt, n.errors[j + 1])
                     d == DerivativeAll(n.layers[j + 1])
                 IN IF ~SameShape(e, d) THEN Outcome(FALSE, n, NoValue)
                    ELSE BackErrors([n EXCEPT !.errors[j] = Hadamard(e, d)], j - 1)

\* Steps 3 and 4, from connection j on: weights[j] -= rate * (errors[j] *
\* layers[j]^T) and biases[j] -= rate * errors[j]
RECURSIVE Update(_, _, _)
Update(n, j, learning_rate) ==
    IF j > Len(n.weights) THEN Outcome(TRUE, n, NoValue)
    ELSE LET lt == Transpose(n.layers[j])
         IN IF ~CanMul(n.errors[j], lt) THEN Outcome(FALSE, n, NoValue)
            ELSE LET delta == Scale(learning_rate, MatMul(n.errors[j], lt))
                 IN IF ~SameShape(delta, n.weights[j]) \/ ~SameShape(n.errors[j], n.biases[j])
                    THEN Outcome(FALSE, n, NoValue)
                    ELSE Update([n EXCEPT !.weights[j] = MatSub(n.weights[j], delta),
                                          !.biases[j] = MatSub(n.biases[j],
                                                               Scale(learning_rate, n.errors[j]))],
                                j + 1, learning_rate)

\* backpropagate storing into the output layer's error before it compares the
\* lengths of the prediction and the target
BackpropagateLateCheck(n, guesses, targets, learning_rate) ==
    LET last == Len(n.errors)
        g == ColVec(guesses)
        t == ColVec(targets)
    IN IF last = 0 THEN Outcome(FALSE, n, NoValue)
       ELSE IF ~SameShape(g, t)
            THEN Outcome(FALSE, [n EXCEPT !.errors[last] = DerivativeAll(g)], NoValue)
            ELSE LET n1 == [n EXCEPT !.errors[last] =
                                Hadamard(MatSub(g, t), DerivativeAll(g))]
                     r == BackErrors(n1, last - 1)
                 IN IF ~r.ok THEN r ELSE Update(r.net, 1, learning_rate)

\* NeuralNet::backpropagate: the output layer's error from the prediction and
\* the target (vectors of different lengths cannot be subtracted), the earlier
\* layers' errors, then the update of every weight matrix and bias vector
Backpropagate(n, guesses, targets, learning_rate) ==
    LET last == Len(n.errors)
        g == ColVec(guesses)
        t == ColVec(targets)
    IN IF last = 0 \/ ~SameShape(g, t) THEN Outcome(FALSE, n, NoValue)
       ELSE LET n1 == [n EXCEPT !.errors[last] = Hadamard(MatSub(g, t), DerivativeAll(g))]
                r == BackErrors(n1, last - 1)
            IN IF ~r.ok THEN r ELSE Update(r.net, 1, learning_rate)

\* test() updating the network from every example, as train does
RECURSIVE TestFromUpdating(_, _, _, _)
TestFromUpdating(n, data, k, cost) ==
    IF k > Len(data) THEN Outcome(TRUE, n, cost)
    ELSE LET r == Guess(n, data[k].inputs)
         IN IF ~r.ok THEN r
            ELSE TestFromUpdating(Backpropagate(r.net, r.out, data[k].targets, 1).net,
                                  data, k + 1, cost)

\* NeuralNet::test: a forward pass per example, in order; the example's cost is
\* the sum over zip(guesses, targets) of the squared difference
RECURSIVE TestFrom(_, _, _, _)
TestFrom(n, data, k, cost) ==
    IF k > Len(data) THEN Outcome(TRUE, n, cost)
    ELSE LET r == Guess(n, data[k].inputs)
             m == IF Len(r.out) < Len(data[k].targets) THEN Len(r.out) ELSE Len(data[k].targets)
         IN IF ~r.ok THEN r
            ELSE TestFrom(r.net, data, k + 1,
                          cost + SumTo([j \in 1..m |->
                                          (r.out[j] - data[k].targets[j]) * (r.out[j] - data[k].targets[j])],
                                       m))

\* ---------------------------------------------------------------- persistence
\* The derived Serialize in bincode's layout, as a sequence of words: a Vec is
\* its length then its elements; a DMatrix is its storage, the data Vec, then
\* nrows and ncols; PhantomData<A> takes no bytes
EncodeMat(m) == <<Len(m.data)>> \o m.data \o <<m.nrows, m.ncols>>

RECURSIVE EncodeMats(_, _)
EncodeMats(ms, k) == IF k > Len(ms) THEN <<>> ELSE EncodeMat(ms[k]) \o EncodeMats(ms, k + 1)

EncodeVec(ms) == <<Len(ms)>> \o EncodeMats(ms, 1)
EncodeNet(n) ==
    EncodeVec(n.layers) \o EncodeVec(n.weights) \o EncodeVec(n.biases) \o EncodeVec(n.errors)

\* The derived Deserialize: a read result is the value and the position after
\* it, or a failure when the bytes end early or a matrix's storage disagrees
\* with its own dimensions; nothing compares one matrix with another
Failed == [ok |-> FALSE]
Read(v, p) == [ok |-> TRUE, val |-> v, next |-> p]

\* Deserialize reading the two dimensions in the other order
DecodeMatSwapped(bytes, p) ==
    IF p > Len(bytes) \/ bytes[p] < 0 THEN Failed
    ELSE LET n == bytes[p]
         IN IF p + n + 2 > Len(bytes) THEN Failed
            ELSE LET c == bytes[p + n + 1]
                     r == bytes[p + n + 2]
                 IN IF r < 0 \/ c < 0 \/ r * c # n THEN Failed
                    ELSE Read(Mat(r, c, [k \in 1..n |-> bytes[p + k]]), p + n + 3)

DecodeMat(bytes, p) ==
    IF p > Len(bytes) \/ bytes[p] < 0 THEN Failed
    ELSE LET n == bytes[p]
         IN IF p + n + 2 > Len(bytes) THEN Failed
            ELSE LET r == bytes[p + n + 1]
                     c == bytes[p + n + 2]
                 IN IF r < 0 \/ c < 0 \/ r * c # n THEN Failed
                    ELSE Read(Mat(r, c, [k \in 1..n |-> bytes[p + k]]), p + n + 3)

RECURSIVE DecodeMats(_, _, _, _)
DecodeMats(bytes, p, left, acc) ==
    IF left = 0 THEN Read(acc, p)
    ELSE LET m == DecodeMat(bytes, p)
         IN IF ~m.ok THEN Failed ELSE DecodeMats(bytes, m.next, left - 1, Append(acc, m.val))

DecodeVec(bytes, p) ==
    IF p > Len(bytes) \/ bytes[p] < 0 THEN Failed
    ELSE DecodeMats(bytes, p + 1, bytes[p], <<>>)

DecodeNet(bytes) ==
    LET l == DecodeVec(bytes, 1)
    IN IF ~l.ok THEN Failed
       ELSE LET w == DecodeVec(bytes, l.next)
            IN IF ~w.ok THEN Failed
               ELSE LET b == DecodeVec(bytes, w.next)
                    IN IF ~b.ok THEN Failed
                       ELSE LET e == DecodeVec(bytes, b.next)
                            IN IF ~e.ok THEN Failed
                               ELSE Read(Net(l.val, w.val, b.val, e.val), e.next)

\* ---------------------------------------------------------------- dataset.rs
\* A CSV field is a sequence of characters; val.trim() drops the white space
\* around it
RECURSIVE TrimStart(_)
TrimStart(s) == IF Len(s) > 0 /\ Head(s) = " " THEN TrimStart(Tail(s)) ELSE s

RECURSIVE TrimEnd(_)
TrimEnd(s) == IF Len(s) > 0 /\ s[Len(s)] = " " THEN TrimEnd(SubSeq(s, 1, Len(s) - 1)) ELSE s

Trim(s) == TrimEnd(TrimStart(s))

Digit(ch) == CASE ch = "0" -> 0 [] ch = "1" -> 1 [] ch = "2" -> 2 [] OTHER -> -1

RECURSIVE DigitsValue(_, _)
DigitsValue(s, acc) == IF s = <<>> THEN acc ELSE DigitsValue(Tail(s), 10 * acc + Digit(Head(s)))

\* f64::from_str on the digits this model writes numbers with: an empty field
\* or any other character is an error
ParseF64(s) ==
    IF s # <<>> /\ \A k \in 1..Len(s) : Digit(s[k]) >= 0
    THEN [ok |-> TRUE, val |-> DigitsValue(s, 0)]
    ELSE [ok |-> FALSE, val |-> 0]

CsvOk(rows) == [kind |-> "Ok", data |-> rows]
CsvErr(e) == [kind |-> "Err", error |-> e]
CsvPanic == [kind |-> "Panic"]

\* The closure mapped over reader.records(), collected into a Result: the
\* reader rejects a record whose length differs from the first one's, the
\* first field that is no number ends the parse, split_off(num_inputs) panics
\* past the end of the row
RECURSIVE ParseRecords(_, _, _, _, _)
ParseRecords(records, k, width, num_inputs, acc) ==
    IF k > Len(records) THEN CsvOk(acc)
    ELSE IF Len(records[k]) # width THEN CsvErr("csv")
    ELSE LET parsed == [j \in 1..width |-> ParseF64(Trim(records[k][j]))]
         IN IF \E j \in 1..width : ~parsed[j].ok THEN CsvErr("parse_float")
            ELSE IF num_inputs > width THEN CsvPanic
            ELSE ParseRecords(records, k + 1, width, num_inputs,
                              Append(acc, [inputs |-> [j \in 1..num_inputs |-> parsed[j].val],
                                           targets |-> [j \in 1..(width - num_inputs) |->
                                                           parsed[num_inputs + j].val]]))

\* Dataset::from_csv(file_path, includes_headers, num_inputs)
from_csv(f, includes_headers, num_inputs) ==
    IF ~f.exists THEN CsvErr("io")
    ELSE IF f.records = <<>> THEN CsvOk(<<>>)
    ELSE ParseRecords(f.records, IF includes_headers THEN 2 ELSE 1, Len(f.records[1]),
                      num_inputs, <<>>)

\* ---------------------------------------------------------------- inputs
Percent == 100

Topologies == UNION {[1..n -> 1..MaxNodes] : n \in 0..MaxLayers}
InputVecs == UNION {[1..n -> {0, 1}] : n \in 1..MaxNodes}
SmallIterCounts == 0..MaxSmallIter
IterCounts == SmallIterCounts \cup {Percent}
LearningRates == {1}

\* Dataset::from(Vec<Row>): rows of one input and one target length; the id
\* names the example across shuffles
ExampleRow(k, inLen, outLen) ==
    [id |-> k,
     inputs |-> [j \in 1..inLen |-> (k + j) % 2],
     targets |-> [j \in 1..outLen |-> 2 * (k % 2)]]
MakeDataset(n, inLen, outLen) == [k \in 1..n |-> ExampleRow(k, inLen, outLen)]
Datasets ==
    {MakeDataset(n, inLen, outLen) :
        n \in 0..MaxRows, inLen \in 1..MaxNodes, outLen \in 1..MaxNodes}

\* Dataset::shuffle: any reordering of the rows
Shuffles(data) ==
    {[k \in 1..Len(data) |-> data[p[k]]] :
        p \in {q \in [1..Len(data) -> 1..Len(data)] : \A a, b \in 1..Len(data) : q[a] = q[b] => a = b}}

\* What may be found at the path instead of what save wrote
NoFile == [exists |-> FALSE, bytes |-> <<>>]
File(bytes) == [exists |-> TRUE, bytes |-> bytes]
RawFiles == UNION {[1..n -> {0, 1}] : n \in 0..MaxRaw}
Damaged(f) ==
    {File(SubSeq(f.bytes, 1, k)) : k \in 0..(Len(f.bytes) - 1)}
        \cup {File([f.bytes EXCEPT ![p] = 1 - f.bytes[p]]) : p \in 1..Len(f.bytes)}
        \cup {File(raw) : raw \in RawFiles}
        \cup {NoFile}

\* The CSV files handed to from_csv
CsvFields == {<<"1">>, <<" ", "2", " ">>, <<"x">>}
CsvRecords == UNION {[1..n -> CsvFields] : n \in 1..MaxFields}
NoCsv == [exists |-> FALSE, records |-> <<>>]
CsvFiles == {NoCsv} \cup {[exists |-> TRUE, records |-> r] :
                              r \in UNION {[1..n -> CsvRecords] : n \in 0..MaxRecords}}

\* ---------------------------------------------------------------- state
VARIABLES
    net,               \* the NeuralNet, or NoNet before construction
    node_counts,       \* the topology new() was called with
    pc,                \* where the program is: "start", "idle", inside train, "panicked", "exited"
    panicAt,           \* the operation that panicked, "" while none has
    lastOp,            \* the public call made last
    result,            \* what the last call returned
    step,              \* how far an example program has got
    pre,               \* the network as it was when the last call or training step began
    training_dataset,  \* train's dataset, in its current order
    iterations,        \* train's arguments
    learning_rate,
    percentile,        \* train's locals
    i,
    pos,               \* the example the inner loop is at
    guesses,
    bar,               \* the progress bar's position
    passes,            \* passes over the dataset completed by the current train call
    seen,              \* ids of the examples updated from in the current pass, in order
    file,              \* the bytes at the path, or NoFile
    saved,             \* the network save() last wrote
    intact,            \* the file still holds what save() wrote
    shuffles,          \* shuffles done by the current train call
    csv,               \* the CSV file, the arguments of from_csv and, once it ran, its outcome
    csvResult

trainVars == <<training_dataset, iterations, learning_rate, percentile, i, pos, guesses, bar,
               passes, seen, shuffles>>
csvVars == <<csv, csvResult>>
fileVars == <<file, saved, intact>>
vars == <<net, node_counts, pc, panicAt, lastOp, result, step, pre, training_dataset,
          iterations, learning_rate, percentile, i, pos, guesses, bar, passes, seen,
          file, saved, intact, shuffles, csv, csvResult>>
progVars == <<net, node_counts, pc, panicAt, lastOp, result, step, pre, training_dataset,
              iterations, learning_rate, percentile, i, pos, guesses, bar, passes, seen,
              file, saved, intact, shuffles>>

NoCsvCall == [file |-> NoCsv, includes_headers |-> FALSE, num_inputs |-> 0]

ProgInit ==
    /\ net = NoNet
    /\ node_counts = <<>>
    /\ pc = "start"
    /\ panicAt = ""
    /\ lastOp = ""
    /\ result = NoValue
    /\ step = 0
    /\ pre = NoNet
    /\ training_dataset = <<>>
    /\ iterations = 0
    /\ learning_rate = 0
    /\ percentile = 0
    /\ i = 0
    /\ pos = 0
    /\ guesses = <<>>
    /\ bar = 0
    /\ passes = 0
    /\ seen = <<>>
    /\ file = NoFile
    /\ saved = NoNet
    /\ intact = FALSE
    /\ shuffles = 0

Init ==
    /\ ProgInit
    /\ csv = NoCsvCall
    /\ csvResult = NoValue

Panic(op) == pc' = "panicked" /\ panicAt' = op

\* new()'s check with the bound off by one
TooFewLayersOffByOne(counts) == Len(counts) < 1

\* `if num_layers < 2`
TooFewLayers(counts) == Len(counts) < 2

\* NeuralNet::new(node_counts)
New(counts, seed) ==
    /\ pc = "start"
    /\ lastOp' = "new"
    /\ node_counts' = counts
    /\ IF TooFewLayers(counts)
       THEN /\ Panic("new")
            /\ net' = NoNet
       ELSE /\ net' = NewNet(counts, seed)
            /\ pc' = "idle"
            /\ panicAt' = ""
    /\ UNCHANGED <<result, pre>>
    /\ UNCHANGED trainVars
    /\ UNCHANGED fileVars

\* A public call of guess(inputs)
GuessCall(inputs) ==
    /\ pc = "idle"
    /\ lastOp' = "guess"
    /\ pre' = net
    /\ LET r == Guess(net, inputs)
       IN /\ net' = r.net
          /\ result' = r.out
          /\ IF r.ok THEN UNCHANGED <<pc, panicAt>> ELSE Panic("guess")
    /\ UNCHANGED node_counts
    /\ UNCHANGED trainVars
    /\ UNCHANGED fileVars

\* NeuralNet::test(testing_dataset)
Test(data) ==
    /\ pc = "idle"
    /\ lastOp' = "test"
    /\ pre' = net
    /\ LET r == TestFrom(net, data, 1, 0)
       IN /\ net' = r.net
          /\ result' = IF r.ok THEN [cost |-> r.out, examples |-> Len(data)] ELSE NoValue
          /\ IF r.ok THEN UNCHANGED <<pc, panicAt>> ELSE Panic("guess")
    /\ UNCHANGED node_counts
    /\ UNCHANGED trainVars
    /\ UNCHANGED fileVars

\* train's loop head: `for i in 1..iterations`
LoopHead(k, n) == IF k < n THEN "shuffle" ELSE "finish"

\* NeuralNet::train, up to the loop: the progress bar and the percentile
TrainStart(data, iters, rate) ==
    /\ pc = "idle"
    /\ lastOp' = "train"
    /\ training_dataset' = data
    /\ iterations' = iters
    /\ learning_rate' = rate
    /\ bar' = 0
    /\ percentile' = iters \div Percent
    /\ i' = 1
    /\ pos' = 0
    /\ guesses' = <<>>
    /\ passes' = 0
    /\ seen' = <<>>
    /\ shuffles' = 0
    /\ pc' = LoopHead(1, iters)
    /\ UNCHANGED <<net, node_counts, panicAt, result, pre>>
    /\ UNCHANGED fileVars

\* training_dataset.shuffle(), then the inner loop's head
Shuffle ==
    /\ pc = "shuffle"
    /\ training_dataset' \in Shuffles(training_dataset)
    /\ pos' = 1
    /\ seen' = <<>>
    /\ shuffles' = shuffles + 1
    /\ pc' = IF Len(training_dataset) = 0 THEN "progress" ELSE "guess"
    /\ UNCHANGED <<net, node_counts, panicAt, lastOp, result, pre, iterations,
                   learning_rate, percentile, i, guesses, bar, passes>>
    /\ UNCHANGED fileVars

\* let guesses = self.guess(inputs)
TrainGuess ==
    /\ pc = "guess"
    /\ pre' = net
    /\ LET r == Guess(net, training_dataset[pos].inputs)
       IN /\ net' = r.net
          /\ guesses' = r.out
          /\ IF r.ok THEN pc' = "backprop" /\ UNCHANGED panicAt ELSE Panic("guess")
    /\ UNCHANGED <<node_counts, lastOp, result, training_dataset, iterations,
                   learning_rate, percentile, i, pos, bar, passes, seen, shuffles>>
    /\ UNCHANGED fileVars

\* The update taking the first row's targets for every example
TrainBackpropFirstTargets ==
    /\ pc = "backprop"
    /\ LET r == Backpropagate(net, guesses, training_dataset[1].targets, learning_rate)
       IN /\ net' = r.net
          /\ IF r.ok
             THEN /\ seen' = Append(seen, training_dataset[pos].id)
                  /\ pos' = pos + 1
                  /\ pc' = IF pos < Len(training_dataset) THEN "guess" ELSE "progress"
                  /\ UNCHANGED panicAt
             ELSE /\ Panic("backpropagate")
                  /\ UNCHANGED <<seen, pos>>
    /\ UNCHANGED <<node_counts, lastOp, result, pre, training_dataset, iterations,
                   learning_rate, percentile, i, guesses, bar, passes, shuffles>>
    /\ UNCHANGED fileVars

\* self.backpropagate(&guesses, targets, learning_rate), then the inner loop's head
TrainBackprop ==
    /\ pc = "backprop"
    /\ LET r == Backpropagate(net, guesses, training_dataset[pos].targets, learning_rate)
       IN /\ net' = r.net
          /\ IF r.ok
             THEN /\ seen' = Append(seen, training_dataset[pos].id)
                  /\ pos' = pos + 1
                  /\ pc' = IF pos < Len(training_dataset) THEN "guess" ELSE "progress"
                  /\ UNCHANGED panicAt
             ELSE /\ Panic("backpropagate")
                  /\ UNCHANGED <<seen, pos>>
    /\ UNCHANGED <<node_counts, lastOp, result, pre, training_dataset, iterations,
                   learning_rate, percentile, i, guesses, bar, passes, shuffles>>
    /\ UNCHANGED fileVars

\* `if i % percentile == 0 { progress_bar.inc(percentile) }`, then the outer
\* loop's head; a remainder by zero panics
Progress ==
    /\ pc = "progress"
    /\ IF percentile = 0
       THEN /\ Panic("progress")
            /\ UNCHANGED <<bar, i, passes>>
       ELSE /\ bar' = IF i % percentile = 0 THEN bar + percentile ELSE bar
            /\ i' = i + 1
            /\ passes' = passes + 1
            /\ pc' = LoopHead(i + 1, iterations)
            /\ UNCHANGED panicAt
    /\ UNCHANGED <<net, node_counts, lastOp, result, pre, training_dataset, iterations,
                   learning_rate, percentile, pos, guesses, seen, shuffles>>
    /\ UNCHANGED fileVars

\* progress_bar.finish_and_clear(); train returns and its locals are dropped
TrainFinish ==
    /\ pc = "finish"
    /\ pc' = "idle"
    /\ result' = NoValue
    /\ training_dataset' = <<>>
    /\ iterations' = 0
    /\ learning_rate' = 0
    /\ percentile' = 0
    /\ i' = 0
    /\ pos' = 0
    /\ guesses' = <<>>
    /\ bar' = 0
    /\ passes' = 0
    /\ seen' = <<>>
    /\ shuffles' = 0
    /\ UNCHANGED <<net, node_counts, panicAt, lastOp, pre>>
    /\ UNCHANGED fileVars

\* NeuralNet::save(path): the encoding of the network replaces the file, or the
\* write fails and the error goes to the caller, who returns it
Save(writable) ==
    /\ pc = "idle"
    /\ lastOp' = "save"
    /\ IF writable
       THEN /\ file' = File(EncodeNet(net))
            /\ saved' = net
            /\ intact' = TRUE
            /\ result' = "Ok"
            /\ UNCHANGED pc
       ELSE /\ result' = "IoError"
            /\ pc' = "exited"
            /\ UNCHANGED fileVars
    /\ UNCHANGED <<net, node_counts, panicAt, pre>>
    /\ UNCHANGED trainVars

\* Between save and load the file is truncated, has a bit flipped, is replaced
\* or is removed
Damage(f) ==
    /\ pc = "idle"
    /\ intact
    /\ file' = f
    /\ intact' = FALSE
    /\ UNCHANGED <<net, node_counts, pc, panicAt, lastOp, result, pre, saved>>
    /\ UNCHANGED trainVars

\* NeuralNet::from_file(path): open, then deserialize; either error goes to the
\* caller, who returns it
FromFile ==
    /\ pc \in {"start", "idle"}
    /\ lastOp' = "from_file"
    /\ pre' = net
    /\ IF ~file.exists
       THEN /\ result' = "IoError"
            /\ pc' = "exited"
            /\ UNCHANGED net
       ELSE LET decoded == DecodeNet(file.bytes)
            IN IF decoded.ok
               THEN /\ net' = decoded.val
                    /\ result' = "Ok"
                    /\ pc' = "idle"
               ELSE /\ result' = "DecodeError"
                    /\ pc' = "exited"
                    /\ UNCHANGED net
    /\ UNCHANGED <<node_counts, panicAt>>
    /\ UNCHANGED trainVars
    /\ UNCHANGED fileVars

\* Any public calls, in any order, on one constructed network
otherVars == <<step, csv, csvResult>>

Next ==
    \/ \E counts \in Topologies, seed \in Seeds : New(counts, seed) /\ UNCHANGED otherVars
    \/ \E inputs \in InputVecs : GuessCall(inputs) /\ UNCHANGED otherVars
    \/ \E data \in Datasets : Test(data) /\ UNCHANGED otherVars
    \/ \E data \in Datasets, iters \in SmallIterCounts, rate \in LearningRates :
          TrainStart(data, iters, rate) /\ UNCHANGED otherVars
    \/ Shuffle /\ UNCHANGED otherVars
    \/ TrainGuess /\ UNCHANGED otherVars
    \/ TrainBackprop /\ UNCHANGED otherVars
    \/ Progress /\ UNCHANGED otherVars
    \/ TrainFinish /\ UNCHANGED otherVars

Spec == Init /\ [][Next]_vars

\* The programs of examples/: new, train, then either test (iris.rs) or save,
\* from_file, guess (files.rs); the file may be damaged between save and
\* from_file, or never have been written
RunNext ==
    \/ \E counts \in Topologies, seed \in Seeds :
          Len(counts) >= 2 /\ New(counts, seed) /\ UNCHANGED otherVars
    \/ \E data \in Datasets, iters \in IterCounts, rate \in LearningRates :
          step = 0 /\ TrainStart(data, iters, rate) /\ step' = 1 /\ UNCHANGED csvVars
    \/ Shuffle /\ UNCHANGED otherVars
    \/ TrainGuess /\ UNCHANGED otherVars
    \/ TrainBackprop /\ UNCHANGED otherVars
    \/ Progress /\ UNCHANGED otherVars
    \/ TrainFinish /\ UNCHANGED otherVars
    \/ \E data \in Datasets : step = 1 /\ Test(data) /\ step' = 2 /\ UNCHANGED csvVars
    \/ \E writable \in BOOLEAN : step = 1 /\ Save(writable) /\ step' = 2 /\ UNCHANGED csvVars
    \/ \E f \in Damaged(file) : lastOp = "save" /\ Damage(f) /\ UNCHANGED otherVars
    \/ (pc = "start" \/ lastOp = "save") /\ FromFile /\ step' = 3 /\ UNCHANGED csvVars
    \/ \E inputs \in InputVecs :
          lastOp = "from_file" /\ GuessCall(inputs) /\ step' = 4 /\ UNCHANGED csvVars

SpecRun == Init /\ [][RunNext]_vars

\* A program that parses one CSV file
CsvInit ==
    /\ ProgInit
    /\ csv \in [file : CsvFiles, includes_headers : BOOLEAN, num_inputs : 0..(MaxFields + 1)]
    /\ csvResult = NoValue

FromCsv ==
    /\ csvResult = NoValue
    /\ csvResult' = from_csv(csv.file, csv.includes_headers, csv.num_inputs)
    /\ UNCHANGED csv
    /\ UNCHANGED progVars

CsvNext == FromCsv

SpecCsv == CsvInit /\ [][CsvNext]_vars

\* ---------------------------------------------------------------- properties
HasShape(m, r, c) == m.nrows = r /\ m.ncols = c /\ Len(m.data) = r * c

\* The shapes the data model gives a network of topology t
ShapedFor(n, t) ==
    /\ Len(n.layers) = Len(t)
    /\ Len(n.weights) = Len(t) - 1
    /\ Len(n.biases) = Len(t) - 1
    /\ Len(n.errors) = Len(t) - 1
    /\ Len(t) - 1 >= 1
    /\ \A k \in 1..Len(t) : HasShape(n.layers[k], t[k], 1)
    /\ \A k \in 1..(Len(t) - 1) :
          /\ HasShape(n.weights[k], t[k + 1], t[k])
          /\ HasShape(n.biases[k], t[k + 1], 1)
          /\ HasShape(n.errors[k], t[k + 1], 1)

WellFormedNet(n) == ShapedFor(n, [k \in 1..Len(n.layers) |-> n.layers[k].nrows])

\* Every row of the dataset has the network's input and output lengths
DatasetFits(data, t) ==
    \A k \in 1..Len(data) : Len(data[k].inputs) = t[1] /\ Len(data[k].targets) = t[Len(t)]

Ids(data) == [k \in 1..Len(data) |-> data[k].id]

\* Some weight or bias lies outside the range new() draws from: the network
\* has been updated
Trained(n) ==
    \E k \in 1..Len(n.weights) :
        \/ \E j \in 1..Len(n.weights[k].data) : n.weights[k].data[j] \notin {-1, 0, 1}
        \/ \E j \in 1..Len(n.biases[k].data) : n.biases[k].data[j] \notin {-1, 0, 1}

\* One training step on example row, from network n: predict, then
\* backpropagate with the row's target and that prediction
StepOn(n, row, rate) ==
    LET g == Guess(n, row.inputs)
    IN Backpropagate(g.net, g.out, row.targets, rate).net

\* C1: when train is about to return, the passes it made over the dataset are
\* as many as the iterations it was asked for.
C1_ExactIterationCount == pc = "finish" => passes = iterations

\* C2: a train call on a dataset whose rows fit the network never fails,
\* whatever the iteration count: the progress report does not stop it.
C2_ProgressHarmless ==
    (lastOp = "train" /\ DatasetFits(training_dataset, node_counts)) => pc # "panicked"

\* C3: new() succeeds for every topology of two or more layers, and the network
\* it builds has, and keeps through every predict, train and test that did not
\* fail on a misshapen example, the shapes its topology dictates.
C3_ShapeInvariant ==
    /\ (lastOp = "new" /\ Len(node_counts) >= 2) => (pc = "idle" /\ net # NoNet)
    /\ (net # NoNet /\ (pc # "panicked" \/ panicAt = "progress")) => ShapedFor(net, node_counts)

C3_Witness ==
    /\ pc = "progress"
    /\ Len(node_counts) = 3
    /\ Len(seen) >= 1
    /\ net.weights # pre.weights
    /\ net.biases # pre.biases

\* C4: in every pass the dataset is shuffled once, before any example; the
\* examples are then taken one by one in the shuffled order, each exactly once;
\* each step is a predict on the example followed, with nothing in between, by
\* the update from its target and that prediction, and the next predict starts
\* from the updated network.
C4_PassOrder ==
    /\ pc \in {"guess", "backprop", "progress"} => shuffles = passes + 1
    /\ pc \in {"guess", "backprop"} =>
          /\ pos \in 1..Len(training_dataset)
          /\ seen = SubSeq(Ids(training_dataset), 1, pos - 1)
    /\ pc = "backprop" =>
          /\ Guess(pre, training_dataset[pos].inputs) = Outcome(TRUE, net, guesses)
    /\ (pc = "guess" /\ pos > 1) =>
          net = StepOn(pre, training_dataset[pos - 1], learning_rate)
    /\ pc = "progress" =>
          /\ seen = Ids(training_dataset)
          /\ \A id \in 1..Len(training_dataset) :
                Cardinality({k \in 1..Len(seen) : seen[k] = id}) = 1
          /\ Len(training_dataset) > 0 =>
                net = StepOn(pre, training_dataset[Len(training_dataset)], learning_rate)

C4_Witness ==
    /\ pc = "progress"
    /\ passes >= 1
    /\ Len(seen) >= 2
    /\ seen[1] > seen[2]
    /\ net.weights # pre.weights

\* C5 as stated: the network after test() returns equals the network before
\* the call, layer activations included.
C5_TestLeavesNetwork == (lastOp = "test" /\ pc = "idle") => net = pre

\* C5, amended: test() leaves the weights, the biases and the error gradients
\* as they were; the layer activations are those of its last forward pass.
C5_TestLeavesParameters ==
    lastOp = "test" =>
        /\ net.weights = pre.weights
        /\ net.biases = pre.biases
        /\ net.errors = pre.errors

C5_Witness ==
    /\ lastOp = "test"
    /\ pc = "idle"
    /\ result.examples >= 2
    /\ net.layers # pre.layers
    /\ Trained(net)

\* C6 as stated: where a predict or a training step fails on a mismatched
\* length, the whole network is as it was when the call began.
C6_MismatchLeavesNetwork ==
    (pc = "panicked" /\ panicAt \in {"guess", "backpropagate"}) => net = pre

\* C6, amended: where a predict or a training step fails on a mismatched
\* length, the weights, the biases and the error gradients are as they were
\* when the call began (the layer activations may already be overwritten).
C6_MismatchLeavesParameters ==
    (pc = "panicked" /\ panicAt \in {"guess", "backpropagate"}) =>
        /\ net.weights = pre.weights
        /\ net.biases = pre.biases
        /\ net.errors = pre.errors

C6_Witness ==
    /\ pc = "panicked"
    /\ panicAt = "backpropagate"
    /\ lastOp = "train"
    /\ net.layers # pre.layers

\* The bytes are the encoding of a network of consistent shapes
ValidEncoding(bytes) ==
    LET d == DecodeNet(bytes)
    IN d.ok /\ WellFormedNet(d.val) /\ EncodeNet(d.val) = bytes

\* C7: from_file returns an I/O error when the file cannot be opened, a decode
\* error when the file is there but its bytes are no encoding of a network of
\* consistent shapes, and a network only when they are one.
C7_LoadClassifies ==
    lastOp = "from_file" =>
        /\ ~file.exists => result = "IoError"
        /\ (file.exists /\ ~ValidEncoding(file.bytes)) => result = "DecodeError"
        /\ result = "Ok" => (file.exists /\ ValidEncoding(file.bytes))

\* C8: a network loaded from the file save() wrote has the topology, the
\* weights and the biases of the saved one, and its prediction on a probe is
\* the saved network's.
C8_RoundTrip ==
    /\ (lastOp = "from_file" /\ intact) =>
          /\ result = "Ok"
          /\ ShapedFor(net, node_counts)
          /\ net.weights = saved.weights
          /\ net.biases = saved.biases
    /\ (lastOp = "guess" /\ intact) =>
          /\ net.weights = saved.weights
          /\ net.biases = saved.biases
          /\ Guess(saved, net.layers[1].data).ok = (pc # "panicked")
          /\ pc # "panicked" => result = Guess(saved, net.layers[1].data).out

C8_Witness ==
    /\ lastOp = "guess"
    /\ intact
    /\ pc = "idle"
    /\ Len(node_counts) = 3
    /\ Trained(saved)

\* C9: new() with a topology of no or one layer panics at once and yields no
\* network: no layer, weight matrix or bias vector has been built.
C9_ShortTopologyPanics ==
    (lastOp = "new" /\ Len(node_counts) < 2) =>
        (pc = "panicked" /\ panicAt = "new" /\ net = NoNet)

C9_Witness == lastOp = "new" /\ Len(node_counts) = 1 /\ pc = "panicked"

\* The rows from_csv is to produce when every field of every data record is a
\* number
DataRecords(c) ==
    IF c.includes_headers /\ c.file.records # <<>> THEN Tail(c.file.records) ELSE c.file.records
FieldIsNumber(s) == ParseF64(Trim(s)).ok
Unreadable(c) ==
    \/ ~c.file.exists
    \/ \E k \in 1..Len(DataRecords(c)) :
          \/ Len(DataRecords(c)[k]) # Len(c.file.records[1])
          \/ \E j \in 1..Len(DataRecords(c)[k]) : ~FieldIsNumber(DataRecords(c)[k][j])
SplitRow(rec, num_inputs) ==
    LET vals == [j \in 1..Len(rec) |-> ParseF64(Trim(rec[j])).val]
        cut == IF num_inputs > Len(rec) THEN Len(rec) ELSE num_inputs
    IN [inputs |-> SubSeq(vals, 1, cut), targets |-> SubSeq(vals, cut + 1, Len(vals))]

\* C10: from_csv returns an error, and no dataset, when the file or a record
\* cannot be read or a field is no number; otherwise it returns every row,
\* in file order, split into its first num_inputs values and the rest.
C10_AllOrNothing ==
    csvResult # NoValue =>
        IF Unreadable(csv)
        THEN csvResult.kind = "Err"
        ELSE csvResult = CsvOk([k \in 1..Len(DataRecords(csv)) |->
                                   SplitRow(DataRecords(csv)[k], csv.num_inputs)])

====
